---------------------------- MODULE Spec2Model ----------------------------
(***************************************************************************)
(* Model of the PMS5003 particulate sensor driver                          *)
(* (library/pms5003/__init__.py) reading frames from a serial channel.     *)
(*                                                                         *)
(* The channel is the fixed-capacity receive buffer of the test suite's    *)
(* MockSerialArbitrary (bytes that do not fit are dropped) or the endless  *)
(* NUL source MockSerialFail.  read() is modelled statement by statement:  *)
(* the synchronisation loop one byte per step, then the length field, then *)
(* the payload and its decoding by PMS5003Data.                            *)
(***************************************************************************)
EXTENDS Integers, Sequences, FiniteSets, TLC

(***************************************************************************)
(* Bounds of the model.                                                    *)
(***************************************************************************)
\* number of simulate_rx() calls in one behaviour
MaxFeeds == 3
\* number of read() calls in one behaviour
MaxCalls == 3
\* longest burst of NUL bytes fed in one simulate_rx() call
MaxBurst == 2
\* the clock is followed up to this many seconds after read() was entered
MaxClock == 8
\* turns of the loop per read() call on the endless NUL channel that take no
\* measurable time
MaxNoise == 8
\* largest retry budget the claims are stated for
MaxRetries == 1
\* number of setup() calls in one behaviour, that of __init__ included
MaxSetups == 2
\* number of reset() calls the caller makes in one behaviour
MaxResets == 1
\* number of mode command calls the caller makes in one behaviour
MaxRequests == 2

(***************************************************************************)
(* Program constants.                                                      *)
(***************************************************************************)
PMS5003_SOF == <<66, 77>>

FRAME_LEN == 32

DATA_LEN == FRAME_LEN - 4

\* the literal of "if elapsed > 5" in read()
READ_TIMEOUT == 5

\* busio.UART(..., timeout=4): the longest one serial.read() waits for bytes
UART_TIMEOUT == 4

\* the default rx_buf_size of PMS5003Simulator and MockSerialArbitrary
SIM_RX_BUF_SIZE == 64

\* the value PMS5003Data.__init__ sees when frame_length_bytes is not passed
None == <<-1>>

(***************************************************************************)
(* Byte strings of the test suite.                                         *)
(***************************************************************************)
GOODFRAME1 ==
    <<66, 77, 0, 28,
      0, 2, 0, 4, 0, 4, 0, 2, 0, 4, 0, 4, 2, 232, 0, 212, 0, 32,
      0, 0, 0, 0, 0, 0, 151, 0,
      3, 52>>

CORRUPTION_POS == Len(GOODFRAME1) \div 2

\* one byte of GOODFRAME1 with its bits inverted (~b & 0xff)
BADFRAME1 ==
    [i \in 1..Len(GOODFRAME1) |->
        IF i = CORRUPTION_POS + 1 THEN 255 - GOODFRAME1[i] ELSE GOODFRAME1[i]]

GOODFRAME2 ==
    <<66, 77, 0, 28,
      0, 7, 0, 9, 0, 9, 0, 7, 0, 9, 0, 9, 5, 46, 1, 138, 0, 52,
      0, 0, 0, 0, 0, 0, 151, 0,
      2, 102>>

\* the device's acknowledgement of the set-mode (passive) command
PASSIVE_RESP == <<66, 77, 0, 4, 225, 0, 1, 116>>

\* the command frames the tests expect on the channel
READ_REQ == <<66, 77, 226, 0, 0, 1, 113>>

PASSIVE_REQ == <<66, 77, 225, 0, 0, 1, 112>>

ACTIVE_REQ == <<66, 77, 225, 0, 1, 1, 113>>

\* b"\x00" * n
Nul(n) == [i \in 1..n |-> 0]

\* the receive buffer sizes the tests construct MockSerialArbitrary with
RxBufSizes == {34, 80}

\* what the device sends in one piece: the frames of the tests, bursts of
\* NUL bytes, and a lone first marker byte
Segments ==
    {GOODFRAME1, GOODFRAME2, BADFRAME1, PASSIVE_RESP, <<PMS5003_SOF[1]>>}
        \cup {Nul(n) : n \in 1..MaxBurst}

(***************************************************************************)
(* Python helpers.                                                         *)
(***************************************************************************)
Min(a, b) == IF a < b THEN a ELSE b

\* sum() of a byte string
RECURSIVE Sum(_)
Sum(s) == IF s = <<>> THEN 0 ELSE Head(s) + Sum(Tail(s))

\* s[:n] for 0 <= n
Take(s, n) == SubSeq(s, 1, Min(n, Len(s)))

\* s[n:] for 0 <= n
Drop(s, n) == SubSeq(s, Min(n, Len(s)) + 1, Len(s))

\* n >> k for 0 <= n < 2^31
ShiftRight(n, k) == IF k >= 31 THEN 0 ELSE n \div (2 ^ k)

\* struct.unpack(">H", b)[0]
UnpackH(b) == b[1] * 256 + b[2]

\* struct.unpack(">HHHHHHHHHHHHHH", raw_data)
Unpack14(raw_data) ==
    [i \in 1..14 |-> raw_data[2 * i - 1] * 256 + raw_data[2 * i]]

(***************************************************************************)
(* class PMS5003Data                                                       *)
(***************************************************************************)
\* check_data_len: TRUE when it returns, FALSE when it raises FrameLengthError
check_data_len(raw_data_len) == raw_data_len = DATA_LEN

\* mutant: the two checksum bytes are summed along with the rest
ComputedChecksum_WholePayload(raw_data, frame_length_bytes) ==
    Sum(PMS5003_SOF) + Sum(raw_data)
        + (IF frame_length_bytes = None
             THEN ShiftRight(Len(raw_data), 256) + (Len(raw_data) % 256)
             ELSE Sum(frame_length_bytes))

\* mutant: without frame_length_bytes no length field enters the sum
ComputedChecksum_NoLengthField(raw_data, frame_length_bytes) ==
    Sum(PMS5003_SOF) + Sum(Take(raw_data, Len(raw_data) - 2))
        + (IF frame_length_bytes = None
             THEN 0
             ELSE Sum(frame_length_bytes))

\* the checksum __init__ computes over marker, length field and payload
ComputedChecksum(raw_data, frame_length_bytes) ==
    Sum(PMS5003_SOF) + Sum(Take(raw_data, Len(raw_data) - 2))
        + (IF frame_length_bytes = None
             THEN ShiftRight(Len(raw_data), 256) + (Len(raw_data) % 256)
             ELSE Sum(frame_length_bytes))

\* mutant: the constructor unpacks without verifying the checksum
PMS5003Data_NoVerify(raw_data, frame_length_bytes) ==
    IF ~check_data_len(Len(raw_data))
      THEN [result |-> "FrameLengthError", data |-> <<>>]
      ELSE [result |-> "ok", data |-> Unpack14(raw_data)]

\* mutant: the checksum is verified before the length is checked
PMS5003Data_VerifyFirst(raw_data, frame_length_bytes) ==
    LET n == Len(raw_data)
        stored == IF n >= 2 THEN raw_data[n - 1] * 256 + raw_data[n] ELSE 0
    IN  IF ComputedChecksum(raw_data, frame_length_bytes) # stored
          THEN [result |-> "ChecksumMismatchError", data |-> <<>>]
          ELSE IF ~check_data_len(n)
                 THEN [result |-> "FrameLengthError", data |-> <<>>]
                 ELSE [result |-> "ok", data |-> Unpack14(raw_data)]

\* PMS5003Data(raw_data, frame_length_bytes=...): the object or the exception
PMS5003Data(raw_data, frame_length_bytes) ==
    IF ~check_data_len(Len(raw_data))
      THEN [result |-> "FrameLengthError", data |-> <<>>]
      ELSE LET data == Unpack14(raw_data)
           IN  IF ComputedChecksum(raw_data, frame_length_bytes) # data[14]
                 THEN [result |-> "ChecksumMismatchError", data |-> <<>>]
                 ELSE [result |-> "ok", data |-> data]

\* self.data[i], a 0-based index into the unpacked tuple
At(data, i) == data[i + 1]

\* a particle size in tenths of a micrometre, boxed so that it compares
\* with None: um(25) is the argument 2.5, um(100) the argument 10
um(tenths) == <<tenths>>

\* what an accessor returns, and the ValueError it raises
Value(v) == [result |-> "ok", value |-> v]

ValueError == [result |-> "ValueError", value |-> 0]

\* PMS5003Data.pm_ug_per_m3(size, atmospheric_environment)
pm_ug_per_m3(data, size, atmospheric_environment) ==
    IF atmospheric_environment
      THEN IF size = um(10) THEN Value(At(data, 3))
           ELSE IF size = um(25) THEN Value(At(data, 4))
           ELSE IF size = None THEN Value(At(data, 5))
           ELSE ValueError
      ELSE IF size = um(10) THEN Value(At(data, 0))
           ELSE IF size = um(25) THEN Value(At(data, 1))
           ELSE IF size = um(100) THEN Value(At(data, 2))
           ELSE ValueError

\* PMS5003Data.pm_per_1l_air(size)
pm_per_1l_air(data, size) ==
    IF size = um(3) THEN Value(At(data, 6))
    ELSE IF size = um(5) THEN Value(At(data, 7))
    ELSE IF size = um(10) THEN Value(At(data, 8))
    ELSE IF size = um(25) THEN Value(At(data, 9))
    ELSE IF size = um(50) THEN Value(At(data, 10))
    ELSE IF size = um(100) THEN Value(At(data, 11))
    ELSE ValueError

(***************************************************************************)
(* State.                                                                  *)
(***************************************************************************)
VARIABLES
    serial,       \* which serial object the session holds: "arbitrary" | "fail"
    rx_buf_size,  \* MockSerialArbitrary.rx_buf_size
    buffer,       \* MockSerialArbitrary.buffer[0:buflen]
    pc,           \* where read() is: "idle" | "sync" | "len" | "payload"
    sof_index,    \* read()'s match state
    len_data,     \* read()'s length field bytes
    clock,        \* time.monotonic() - start, in seconds
    seen,         \* bytes the channel has held for the latest read() call
    consumed,     \* bytes the latest read() call has taken from the channel
    nreads,       \* serial.read() calls made by the current read() call
    decodes,      \* PMS5003Data constructions made by the current read() call
    outcomes,     \* per finished read() call: what it returned or raised
    fed,          \* simulate_rx() calls so far
    rxlog,        \* every byte the receive buffer has accepted so far
    prefed,       \* every simulate_rx() so far came before the first read()
    args,         \* the arguments a caller passes to PMS5003Data(...)
    obj,          \* the PMS5003Data object that call gave, or its exception
    answer,       \* what the latest accessor call on obj returned or raised
    enable_value, \* self._enable.value
    reset_value,  \* self._reset.value
    handle,       \* self._serial: 0 for None, else the UART object held
    live,         \* the UART objects constructed and not yet deinit()ed
    events,       \* what the session did to its lines and its channel, in order
    written_data, \* every byte written to the channel (written_data of the mocks)
    requests,     \* the caller's calls of methods class PMS5003 does not define
    spc,          \* where setup() / reset() is, "idle" outside of them
    mark          \* how many bytes the channel had accepted when reset() began

vars ==
    <<serial, rx_buf_size, buffer, pc, sof_index, len_data, clock,
      seen, consumed, nreads, decodes, outcomes, fed, rxlog, prefed,
      args, obj, answer, enable_value, reset_value, handle, live, events,
      written_data, requests, spc, mark>>

\* a PMS5003Data object a caller constructs directly, as the data tests do
direct == <<args, obj, answer>>

\* the fields of the session that setup() and reset() work on, the trace of
\* what they did, and the caller's dealings with the mode commands
lifecycle ==
    <<enable_value, reset_value, handle, live, events, written_data,
      requests, spc, mark>>

\* what read() and the channel leave alone
session == <<serial, rx_buf_size, direct, lifecycle>>

\* no PMS5003Data object has been constructed directly
NoObject == [result |-> "none", data |-> <<>>]

\* no accessor has been called
NoAnswer ==
    [fn |-> "none", size |-> None, atmospheric_environment |-> FALSE,
     result |-> "none", value |-> 0]

Errors ==
    {"FrameLengthError", "ChecksumMismatchError", "ReadTimeoutError",
     "SerialTimeoutError"}

\* reset(): what it does to the reset line and the channel
ResetTrace == <<"reset=False", "reset_input_buffer", "reset=True">>

\* setup() called from __init__: what it does, self._serial being None
FirstSetupTrace == <<"enable=True", "reset=True", "UART">> \o ResetTrace

\* the session once PMS5003() has returned
Constructed ==
    /\ enable_value = TRUE
    /\ reset_value = TRUE
    /\ handle = 1
    /\ live = {1}
    /\ events = FirstSetupTrace
    /\ written_data = <<>>
    /\ requests = <<>>
    /\ spc = "idle"
    /\ mark = 0

Init ==
    /\ serial \in {"arbitrary", "fail"}
    /\ rx_buf_size \in RxBufSizes
    /\ serial = "fail" => rx_buf_size = 80
    /\ buffer = <<>>
    /\ pc = "idle"
    /\ sof_index = 0
    /\ len_data = <<>>
    /\ clock = 0
    /\ seen = <<>>
    /\ consumed = <<>>
    /\ nreads = 0
    /\ decodes = 0
    /\ outcomes = <<>>
    /\ fed = 0
    /\ rxlog = <<>>
    /\ prefed = TRUE
    /\ args = [raw_data |-> <<>>, frame_length_bytes |-> None]
    /\ obj = NoObject
    /\ answer = NoAnswer
    /\ Constructed

\* no read() has been called and the channel has received nothing
NothingRead ==
    /\ buffer = <<>>
    /\ pc = "idle"
    /\ sof_index = 0
    /\ len_data = <<>>
    /\ clock = 0
    /\ seen = <<>>
    /\ consumed = <<>>
    /\ nreads = 0
    /\ decodes = 0
    /\ outcomes = <<>>
    /\ fed = 0
    /\ rxlog = <<>>
    /\ prefed = TRUE

\* no PMS5003Data has been constructed by the caller
NothingDirect ==
    /\ args = [raw_data |-> <<>>, frame_length_bytes |-> None]
    /\ obj = NoObject
    /\ answer = NoAnswer

(***************************************************************************)
(* The serial channel.                                                     *)
(***************************************************************************)
\* what serial.read(length) returns
SerialRead(length) ==
    IF serial = "fail"
      THEN Nul(length)
      ELSE Take(buffer, Min(length, rx_buf_size))

\* the receive buffer after serial.read(length)
SerialRest(length) ==
    IF serial = "fail"
      THEN buffer
      ELSE Drop(buffer, Min(length, rx_buf_size))

\* the number of bytes the pending serial.read() asks for
Wanted ==
    CASE pc = "sync" -> 1
      [] pc = "len" -> 2
      [] pc = "payload" -> UnpackH(len_data)
      [] OTHER -> 0

\* MockSerialArbitrary.simulate_rx(data): what does not fit is discarded
simulate_rx(data) ==
    /\ serial \in {"arbitrary", "simulator"}
    /\ fed < MaxFeeds
    /\ LET buffer_add_size == Min(Len(data), rx_buf_size - Len(buffer))
       IN  /\ buffer' = buffer \o Take(data, buffer_add_size)
           /\ rxlog' = rxlog \o Take(data, buffer_add_size)
    /\ fed' = fed + 1
    /\ prefed' = (prefed /\ pc = "idle" /\ outcomes = <<>>)
    /\ UNCHANGED <<session, pc, sof_index, len_data, consumed, nreads,
                   decodes, outcomes>>

\* the device sends between two read() calls (followed while a call remains)
Feed ==
    /\ pc = "idle"
    /\ Len(outcomes) < MaxCalls
    /\ \E data \in Segments : simulate_rx(data)
    /\ UNCHANGED <<clock, seen>>

\* how long a serial.read() waits for bytes that do arrive: not at all, or
\* as long as the UART's timeout allows
Waits == {0, UART_TIMEOUT}

\* the device sends set while serial.read(2) or serial.read(frame_length) is
\* waiting for bytes: read() looks at no clock after these reads
ArriveOf(set) ==
    /\ pc \in {"len", "payload"}
    /\ Len(buffer) < Wanted
    /\ \E data \in set : simulate_rx(data)
    /\ seen' = consumed \o buffer'
    /\ \E wait \in Waits :
          /\ clock + wait <= MaxClock
          /\ clock' = clock + wait

\* the device sends one of the test byte strings while such a read waits
Arrive == ArriveOf(Segments)

\* the time one turn of the loop takes on the endless channel: the clock
\* keeps advancing, so that only MaxNoise turns take no measurable time
Spin ==
    IF serial # "fail"
      THEN {0}
      ELSE {spin \in {0, 1} : /\ spin = 0 => Len(consumed) < MaxNoise
                              /\ spin = 1 => clock < MaxClock}

(***************************************************************************)
(* PMS5003.read                                                            *)
(***************************************************************************)
\* read() ends: it returns the measurement or the exception propagates
Finish(result, data) ==
    /\ pc' = "idle"
    /\ outcomes' = Append(outcomes, [result |-> result, data |-> data])

\* mutant: the match state is kept from one call to the next
ReadBegin_KeepMatch ==
    /\ pc = "idle"
    /\ spc = "idle"
    /\ Len(outcomes) < MaxCalls
    /\ pc' = "sync"
    /\ len_data' = <<>>
    /\ clock' = 0
    /\ seen' = buffer
    /\ consumed' = <<>>
    /\ nreads' = 0
    /\ decodes' = 0
    /\ UNCHANGED <<session, buffer, sof_index, outcomes, fed, rxlog, prefed>>

\* start = time.monotonic(); sof_index = 0
ReadBegin ==
    /\ pc = "idle"
    /\ spc = "idle"
    /\ Len(outcomes) < MaxCalls
    /\ pc' = "sync"
    /\ sof_index' = 0
    /\ len_data' = <<>>
    /\ clock' = 0
    /\ seen' = buffer
    /\ consumed' = <<>>
    /\ nreads' = 0
    /\ decodes' = 0
    /\ UNCHANGED <<session, buffer, outcomes, fed, rxlog, prefed>>

\* mutant: the limit itself already counts as exceeded
TimedOut_AtLimit == clock >= READ_TIMEOUT

\* mutant: the elapsed time is never found to exceed the limit
TimedOut_Never == FALSE

\* elapsed > 5
TimedOut == clock > READ_TIMEOUT

\* raise ReadTimeoutError
SyncTimeout ==
    /\ pc = "sync"
    /\ TimedOut
    /\ Finish("ReadTimeoutError", <<>>)
    /\ UNCHANGED <<session, buffer, sof_index, len_data, clock, seen,
                   consumed, nreads, decodes, fed, rxlog, prefed>>

\* the match state after byte sof; 2 stands for the break out of the loop
NextSofIndex(sof) ==
    IF sof = PMS5003_SOF[sof_index + 1]
      THEN sof_index + 1
      ELSE 0

\* mutant: the loop takes the marker two bytes at a time
SyncRead_Pairs ==
    /\ pc = "sync"
    /\ ~TimedOut
    /\ \E spin \in Spin : clock' = clock + spin
    /\ LET sof == SerialRead(2)
       IN  /\ buffer' = SerialRest(2)
           /\ nreads' = nreads + 1
           /\ consumed' = consumed \o sof
           /\ IF Len(sof) = 0
                THEN Finish("SerialTimeoutError", <<>>)
                ELSE /\ pc' = IF sof = PMS5003_SOF THEN "len" ELSE "sync"
                     /\ UNCHANGED outcomes
    /\ UNCHANGED <<session, sof_index, len_data, seen, decodes, fed, rxlog,
                   prefed>>

\* mutant: an empty read does not end the call, the loop goes on polling
SyncRead_KeepWaiting ==
    /\ pc = "sync"
    /\ ~TimedOut
    /\ nreads < FRAME_LEN
    /\ \E spin \in Spin : clock' = clock + spin
    /\ LET sof == SerialRead(1)
       IN  /\ buffer' = SerialRest(1)
           /\ nreads' = nreads + 1
           /\ consumed' = consumed \o sof
           /\ IF Len(sof) = 0
                THEN pc' = "sync" /\ UNCHANGED sof_index
                ELSE IF NextSofIndex(sof[1]) = 2
                       THEN pc' = "len" /\ UNCHANGED sof_index
                       ELSE pc' = "sync" /\ sof_index' = NextSofIndex(sof[1])
    /\ UNCHANGED <<session, len_data, seen, decodes, outcomes, fed, rxlog,
                   prefed>>

\* one turn of the loop: sof = serial.read(1) and the comparison
SyncRead ==
    /\ pc = "sync"
    /\ ~TimedOut
    /\ \E spin \in Spin : clock' = clock + spin
    /\ LET sof == SerialRead(1)
       IN  /\ buffer' = SerialRest(1)
           /\ nreads' = nreads + 1
           /\ consumed' = consumed \o sof
           /\ IF Len(sof) = 0
                THEN /\ Finish("SerialTimeoutError", <<>>)
                     /\ UNCHANGED sof_index
                ELSE /\ IF NextSofIndex(sof[1]) = 2
                          THEN pc' = "len" /\ UNCHANGED sof_index
                          ELSE pc' = "sync" /\ sof_index' = NextSofIndex(sof[1])
                     /\ UNCHANGED outcomes
    /\ UNCHANGED <<session, len_data, seen, decodes, fed, rxlog, prefed>>

\* one turn of the loop whose serial.read(1) has to wait: the elapsed time was
\* looked at before the read, the device sends while the read waits, and the
\* read returns the first byte of what arrived
SyncArriveOf(set) ==
    /\ pc = "sync"
    /\ ~TimedOut
    /\ serial = "arbitrary"
    /\ buffer = <<>>
    /\ fed < MaxFeeds
    /\ \E data \in set, wait \in Waits :
          LET arrived == Take(data, rx_buf_size)
              sof == arrived[1]
          IN  /\ clock + wait <= MaxClock
              /\ clock' = clock + wait
              /\ rxlog' = rxlog \o arrived
              /\ seen' = consumed \o arrived
              /\ buffer' = Tail(arrived)
              /\ consumed' = Append(consumed, sof)
              /\ IF NextSofIndex(sof) = 2
                   THEN pc' = "len" /\ UNCHANGED sof_index
                   ELSE pc' = "sync" /\ sof_index' = NextSofIndex(sof)
    /\ nreads' = nreads + 1
    /\ fed' = fed + 1
    /\ prefed' = FALSE
    /\ UNCHANGED <<session, len_data, decodes, outcomes>>

\* such a turn, the device sending one of the test byte strings
SyncArrive == SyncArriveOf(Segments)

\* mutant: a wrong length field sends read() back to hunting for a marker
ReadLength_Resync ==
    /\ pc = "len"
    /\ LET got == SerialRead(2)
       IN  /\ buffer' = SerialRest(2)
           /\ nreads' = nreads + 1
           /\ consumed' = consumed \o got
           /\ len_data' = got
           /\ IF Len(got) # 2
                THEN Finish("SerialTimeoutError", <<>>) /\ UNCHANGED sof_index
                ELSE /\ UNCHANGED outcomes
                     /\ IF ~check_data_len(UnpackH(got))
                          THEN pc' = "sync" /\ sof_index' = 0
                          ELSE pc' = "payload" /\ UNCHANGED sof_index
    /\ UNCHANGED <<session, clock, seen, decodes, fed, rxlog, prefed>>

\* mutant: a frame of any other length is taken off the channel and read()
\* hunts for the next marker
ReadLength_SkipFrame ==
    /\ pc = "len"
    /\ LET got == SerialRead(2)
           skipped == IF Len(got) = 2 /\ ~check_data_len(UnpackH(got))
                        THEN Min(UnpackH(got), Len(SerialRest(2)))
                        ELSE 0
       IN  /\ buffer' = Drop(SerialRest(2), skipped)
           /\ nreads' = nreads + (IF skipped > 0 THEN 2 ELSE 1)
           /\ consumed' = consumed \o got \o Take(SerialRest(2), skipped)
           /\ len_data' = got
           /\ IF Len(got) # 2
                THEN Finish("SerialTimeoutError", <<>>) /\ UNCHANGED sof_index
                ELSE /\ UNCHANGED outcomes
                     /\ IF ~check_data_len(UnpackH(got))
                          THEN pc' = "sync" /\ sof_index' = 0
                          ELSE pc' = "payload" /\ UNCHANGED sof_index
    /\ UNCHANGED <<session, clock, seen, decodes, fed, rxlog, prefed>>

\* mutant: the elapsed time is looked at again before the length is read
ReadLength_TimeChecked ==
    /\ pc = "len"
    /\ LET got == SerialRead(2)
       IN  IF TimedOut
             THEN /\ Finish("ReadTimeoutError", <<>>)
                  /\ UNCHANGED <<buffer, nreads, consumed, len_data>>
             ELSE /\ buffer' = SerialRest(2)
                  /\ nreads' = nreads + 1
                  /\ consumed' = consumed \o got
                  /\ len_data' = got
                  /\ IF Len(got) # 2
                       THEN Finish("SerialTimeoutError", <<>>)
                       ELSE IF ~check_data_len(UnpackH(got))
                              THEN Finish("FrameLengthError", <<>>)
                              ELSE pc' = "payload" /\ UNCHANGED outcomes
    /\ UNCHANGED <<session, sof_index, clock, seen, decodes, fed, rxlog,
                   prefed>>

\* len_data = serial.read(2); check_data_len(frame_length)
ReadLength ==
    /\ pc = "len"
    /\ LET got == SerialRead(2)
       IN  /\ buffer' = SerialRest(2)
           /\ nreads' = nreads + 1
           /\ consumed' = consumed \o got
           /\ len_data' = got
           /\ IF Len(got) # 2
                THEN Finish("SerialTimeoutError", <<>>)
                ELSE IF ~check_data_len(UnpackH(got))
                       THEN Finish("FrameLengthError", <<>>)
                       ELSE pc' = "payload" /\ UNCHANGED outcomes
    /\ UNCHANGED <<session, sof_index, clock, seen, decodes, fed, rxlog,
                   prefed>>

\* mutant: a checksum mismatch sends read() on to the next frame, unbounded
Deliver_Retry(d) ==
    IF d.result = "ChecksumMismatchError"
      THEN pc' = "sync" /\ sof_index' = 0 /\ UNCHANGED outcomes
      ELSE /\ Finish(IF d.result = "ok" THEN "data" ELSE d.result, d.data)
           /\ UNCHANGED sof_index

\* return PMS5003Data(...): the object is returned, its exception propagates
Deliver(d) ==
    /\ Finish(IF d.result = "ok" THEN "data" ELSE d.result, d.data)
    /\ UNCHANGED sof_index

\* mutant: a short payload sends read() back to hunting for the next frame
ReadPayload_RetryShort ==
    /\ pc = "payload"
    /\ LET frame_length == UnpackH(len_data)
           raw_data == SerialRead(frame_length)
       IN  /\ buffer' = SerialRest(frame_length)
           /\ nreads' = nreads + 1
           /\ consumed' = consumed \o raw_data
           /\ IF Len(raw_data) # frame_length
                THEN /\ pc' = "sync" /\ sof_index' = 0
                     /\ UNCHANGED <<outcomes, decodes>>
                ELSE /\ decodes' = decodes + 1
                     /\ Deliver(PMS5003Data(raw_data, len_data))
    /\ UNCHANGED <<session, len_data, clock, seen, fed, rxlog, prefed>>

\* mutant: the payload is decoded without comparing its length
ReadPayload_NoShortCheck ==
    /\ pc = "payload"
    /\ LET frame_length == UnpackH(len_data)
           raw_data == SerialRead(frame_length)
       IN  /\ buffer' = SerialRest(frame_length)
           /\ nreads' = nreads + 1
           /\ consumed' = consumed \o raw_data
           /\ decodes' = decodes + 1
           /\ Deliver(PMS5003Data(raw_data, len_data))
    /\ UNCHANGED <<session, len_data, clock, seen, fed, rxlog, prefed>>

\* raw_data = serial.read(frame_length); return PMS5003Data(...)
ReadPayload ==
    /\ pc = "payload"
    /\ LET frame_length == UnpackH(len_data)
           raw_data == SerialRead(frame_length)
       IN  /\ buffer' = SerialRest(frame_length)
           /\ nreads' = nreads + 1
           /\ consumed' = consumed \o raw_data
           /\ IF Len(raw_data) # frame_length
                THEN /\ Finish("SerialTimeoutError", <<>>)
                     /\ UNCHANGED <<sof_index, decodes>>
                ELSE /\ decodes' = decodes + 1
                     /\ Deliver(PMS5003Data(raw_data, len_data))
    /\ UNCHANGED <<session, len_data, clock, seen, fed, rxlog, prefed>>

Next ==
    \/ Feed
    \/ Arrive
    \/ ReadBegin
    \/ SyncTimeout
    \/ SyncRead
    \/ SyncArrive
    \/ ReadLength
    \/ ReadPayload

Spec == Init /\ [][Next]_vars

\* each serial.read() call returns and the statements after it are executed:
\* a step of read() that can be taken is taken (the clock's advance is part
\* of Spin and Waits)
ReadFairness ==
    /\ WF_vars(SyncTimeout)
    /\ WF_vars(SyncRead)
    /\ WF_vars(ReadLength)
    /\ WF_vars(ReadPayload)

LiveSpec == Spec /\ ReadFairness

(***************************************************************************)
(* read() on a UART whose device sends its frames a piece at a time, each   *)
(* piece after a wait the UART's timeout allows: busio.UART(timeout=4).     *)
(***************************************************************************)
\* what the device sends, frame after frame
Stream == GOODFRAME1 \o GOODFRAME2

\* the sizes of the pieces: a byte, the marker or the length field, the
\* payload, a whole frame
ChunkSizes == {1, 2, DATA_LEN, FRAME_LEN}

\* the pieces the device can send next
Pieces ==
    {SubSeq(Stream, Len(rxlog) + 1, Len(rxlog) + n) :
        n \in {k \in ChunkSizes : Len(rxlog) + k <= Len(Stream)}}

SlowInit ==
    /\ Init
    /\ serial = "arbitrary"
    /\ rx_buf_size = 80

\* the device sends its next piece between two read() calls
Dribble ==
    /\ pc = "idle"
    /\ Len(outcomes) < MaxCalls
    /\ \E data \in Pieces : simulate_rx(data)
    /\ UNCHANGED <<clock, seen>>

\* the next piece arrives while serial.read(2) or serial.read(frame_length)
\* waits
Trickle == ArriveOf(Pieces)

\* the next piece arrives while the serial.read(1) of the loop waits
SyncTrickle == SyncArriveOf(Pieces)

SlowNext ==
    \/ Dribble
    \/ Trickle
    \/ SyncTrickle
    \/ ReadBegin
    \/ SyncTimeout
    \/ SyncRead
    \/ ReadLength
    \/ ReadPayload

SlowSpec == SlowInit /\ [][SlowNext]_vars

(***************************************************************************)
(* PMS5003Data constructed directly from bytes, as test_data_checksum_*    *)
(* do, and its accessors called on the object.                             *)
(***************************************************************************)
\* everything of the channel and of read(), which a direct construction
\* does not touch
channel ==
    <<serial, rx_buf_size, buffer, pc, sof_index, len_data, clock, seen,
      consumed, nreads, decodes, outcomes, fed, rxlog, prefed>>

\* frame[4:], the payload of a frame
Payload(frame) == Drop(frame, 4)

\* the payloads the caller starts from: those of the recorded frames, the
\* all-zero measurement of MockSerial, and 28 bytes of the largest value
RawDataBases ==
    {Payload(GOODFRAME1), Payload(GOODFRAME2), Nul(26) \o <<0, 171>>,
     [i \in 1..DATA_LEN |-> 255]}

\* the lengths of the byte strings passed as raw_data
DataLens == {0, 4, DATA_LEN - 1, DATA_LEN, DATA_LEN + 1}

\* a base cut or padded with NULs to n bytes
Resize(b, n) == IF n <= Len(b) THEN Take(b, n) ELSE b \o Nul(n - Len(b))

\* the frame_length_bytes passed: left out, that of a data frame, that of an
\* acknowledgement, and the largest
LengthFields == {None, <<0, 28>>, <<0, 4>>, <<255, 255>>}

\* the positions at which a byte is inverted: the first, the one BADFRAME1
\* inverts, the last field byte and the two checksum bytes
AlterAt == {1, CORRUPTION_POS - 3, DATA_LEN - 2, DATA_LEN - 1, DATA_LEN}

\* the size arguments callers pass: the six sizes, none, and an unknown one
AskedSizes ==
    {um(3), um(5), um(10), um(25), um(50), um(100), um(40), None}

DataInit ==
    /\ serial = "none"
    /\ rx_buf_size = 0
    /\ NothingRead
    /\ \E b \in RawDataBases, n \in DataLens, f \in LengthFields :
          args = [raw_data |-> Resize(b, n), frame_length_bytes |-> f]
    /\ obj = NoObject
    /\ answer = NoAnswer
    /\ Constructed

\* bytes([~b & 0xff]): one byte of the input has its bits inverted
Corrupt ==
    /\ obj = NoObject
    /\ \E i \in AlterAt :
          /\ i <= Len(args.raw_data)
          /\ args' = [args EXCEPT !.raw_data[i] = 255 - @]
    /\ UNCHANGED <<channel, lifecycle, obj, answer>>

\* struct.pack('>H', sum(...)): the sender sets the last two bytes to the
\* sum of marker, length field and the bytes before them
Reseal ==
    /\ obj = NoObject
    /\ Len(args.raw_data) >= 2
    /\ LET body == SubSeq(args.raw_data, 1, Len(args.raw_data) - 2)
           field == IF args.frame_length_bytes = None
                      THEN <<0, Len(args.raw_data)>>
                      ELSE args.frame_length_bytes
           total == Sum(PMS5003_SOF) + Sum(field) + Sum(body)
       IN  args' = [args EXCEPT
                      !.raw_data = body \o <<total \div 256, total % 256>>]
    /\ UNCHANGED <<channel, lifecycle, obj, answer>>

\* data = pms5003.PMS5003Data(raw_data, frame_length_bytes=...)
Construct ==
    /\ obj = NoObject
    /\ obj' = PMS5003Data(args.raw_data, args.frame_length_bytes)
    /\ UNCHANGED <<channel, lifecycle, args, answer>>

\* data.pm_ug_per_m3(size, atmospheric_environment)
Call_pm_ug_per_m3 ==
    /\ obj.result = "ok"
    /\ \E size \in AskedSizes, atmospheric_environment \in BOOLEAN :
          LET r == pm_ug_per_m3(obj.data, size, atmospheric_environment)
          IN  answer' =
                  [fn |-> "pm_ug_per_m3", size |-> size,
                   atmospheric_environment |-> atmospheric_environment,
                   result |-> r.result, value |-> r.value]
    /\ UNCHANGED <<channel, lifecycle, args, obj>>

\* data.pm_per_1l_air(size)
Call_pm_per_1l_air ==
    /\ obj.result = "ok"
    /\ \E size \in AskedSizes :
          LET r == pm_per_1l_air(obj.data, size)
          IN  answer' =
                  [fn |-> "pm_per_1l_air", size |-> size,
                   atmospheric_environment |-> FALSE,
                   result |-> r.result, value |-> r.value]
    /\ UNCHANGED <<channel, lifecycle, args, obj>>

DataNext ==
    \/ Corrupt
    \/ Reseal
    \/ Construct
    \/ Call_pm_ug_per_m3
    \/ Call_pm_per_1l_air

DataSpec == DataInit /\ [][DataNext]_vars

(***************************************************************************)
(* The session's life: PMS5003.__init__, setup and reset, on a channel     *)
(* that the simulated device streams GOODFRAME1 into, with read() calls    *)
(* in between.                                                             *)
(***************************************************************************)
\* everything of read() and of the receive side
reading ==
    <<buffer, pc, sof_index, len_data, clock, seen, consumed, nreads,
      decodes, outcomes, fed, rxlog, prefed>>

\* how often event e is in the trace
RECURSIVE Count(_, _)
Count(trace, e) ==
    IF trace = <<>>
      THEN 0
      ELSE (IF Head(trace) = e THEN 1 ELSE 0) + Count(Tail(trace), e)

\* reset_input_buffer() and deinit() of PMS5003Simulator set buflen = 0,
\* those of MockSerialArbitrary do nothing
Discards == serial = "simulator"

\* the methods class PMS5003 defines
Methods == {"setup", "reset", "read"}

\* the mode commands the tests and examples call on the session
ModeCommands == {"cmd_mode_passive", "cmd_mode_active"}

\* sensor.<name>: the bound method, or the AttributeError of the lookup
getattr(name) == IF name \in Methods THEN "method" ELSE "AttributeError"

\* read() calls started so far
ReadsStarted == Len(outcomes) + (IF pc = "idle" THEN 0 ELSE 1)

\* the session at the last statement of __init__, before self.setup()
SessionInit ==
    /\ serial \in {"simulator", "arbitrary"}
    /\ rx_buf_size = SIM_RX_BUF_SIZE
    /\ NothingRead
    /\ NothingDirect
    /\ enable_value = FALSE
    /\ reset_value = FALSE
    /\ handle = 0
    /\ live = {}
    /\ events = <<>>
    /\ written_data = <<>>
    /\ requests = <<>>
    /\ spc = "new"
    /\ mark = 0

\* PMS5003Simulator._tick: the streaming device sends one more frame
Tick ==
    /\ simulate_rx(GOODFRAME1)
    /\ seen' = IF pc = "idle" THEN seen ELSE consumed \o buffer'
    /\ UNCHANGED clock

\* setup(), lines 129 to 135: both lines are made outputs and driven high
SetupPins ==
    /\ spc \in {"new", "idle"}
    /\ pc = "idle"
    /\ Count(events, "enable=True") < MaxSetups
    /\ enable_value' = TRUE
    /\ reset_value' = TRUE
    /\ events' = events \o <<"enable=True", "reset=True">>
    /\ spc' = "release"
    /\ UNCHANGED <<serial, rx_buf_size, direct, reading, handle, live,
                   written_data, requests, mark>>

\* mutant: the channel held is not released
SetupRelease_Keep ==
    /\ spc = "release"
    /\ spc' = "acquire"
    /\ UNCHANGED <<serial, rx_buf_size, direct, reading, enable_value,
                   reset_value, handle, live, events, written_data,
                   requests, mark>>

\* if self._serial is not None: self._serial.deinit()
SetupRelease ==
    /\ spc = "release"
    /\ spc' = "acquire"
    /\ IF handle # 0
         THEN /\ live' = live \ {handle}
              /\ events' = Append(events, "deinit")
              /\ buffer' = IF Discards THEN <<>> ELSE buffer
         ELSE UNCHANGED <<live, events, buffer>>
    /\ UNCHANGED <<serial, rx_buf_size, direct, pc, sof_index, len_data,
                   clock, seen, consumed, nreads, decodes, outcomes, fed,
                   rxlog, prefed, enable_value, reset_value, handle,
                   written_data, requests, mark>>

\* self._serial = busio.UART(...); self.reset() is entered
SetupAcquire ==
    /\ spc = "acquire"
    /\ LET new == Count(events, "UART") + 1
       IN  /\ handle' = new
           /\ live' = live \cup {new}
    /\ events' = Append(events, "UART")
    /\ spc' = "reset"
    /\ mark' = Len(rxlog)
    /\ UNCHANGED <<serial, rx_buf_size, direct, reading, enable_value,
                   reset_value, written_data, requests>>

\* the caller's sensor.reset() is entered
ResetCall ==
    /\ spc = "idle"
    /\ pc = "idle"
    /\ Count(events, "reset=False") - Count(events, "UART") < MaxResets
    /\ spc' = "reset"
    /\ mark' = Len(rxlog)
    /\ UNCHANGED <<serial, rx_buf_size, direct, reading, enable_value,
                   reset_value, handle, live, events, written_data,
                   requests>>

\* time.sleep(0.1); self._reset.value = False
ResetLow ==
    /\ spc = "reset"
    /\ reset_value' = FALSE
    /\ events' = Append(events, "reset=False")
    /\ spc' = "reset_low"
    /\ UNCHANGED <<serial, rx_buf_size, direct, reading, enable_value,
                   handle, live, written_data, requests, mark>>

\* mutant: the buffered input is left where it is
ResetClear_Forgotten ==
    /\ spc = "reset_low"
    /\ spc' = "reset_cleared"
    /\ UNCHANGED <<serial, rx_buf_size, direct, reading, enable_value,
                   reset_value, handle, live, events, written_data,
                   requests, mark>>

\* self._serial.reset_input_buffer()
ResetClear ==
    /\ spc = "reset_low"
    /\ buffer' = IF Discards THEN <<>> ELSE buffer
    /\ events' = Append(events, "reset_input_buffer")
    /\ spc' = "reset_cleared"
    /\ UNCHANGED <<serial, rx_buf_size, direct, pc, sof_index, len_data,
                   clock, seen, consumed, nreads, decodes, outcomes, fed,
                   rxlog, prefed, enable_value, reset_value, handle, live,
                   written_data, requests, mark>>

\* time.sleep(0.1); self._reset.value = True; reset() returns
ResetHigh ==
    /\ spc = "reset_cleared"
    /\ reset_value' = TRUE
    /\ events' = Append(events, "reset=True")
    /\ spc' = "idle"
    /\ UNCHANGED <<serial, rx_buf_size, direct, reading, enable_value,
                   handle, live, written_data, requests, mark>>

\* sensor.cmd_mode_passive() / sensor.cmd_mode_active(): class PMS5003 has
\* no such attribute, the call raises AttributeError and writes nothing
CallModeCommand ==
    /\ spc = "idle"
    /\ pc = "idle"
    /\ Len(requests) < MaxRequests
    /\ \E name \in ModeCommands :
          /\ getattr(name) = "AttributeError"
          /\ requests' =
                Append(requests, [method |-> name, reads |-> ReadsStarted])
    /\ UNCHANGED <<serial, rx_buf_size, direct, reading, enable_value,
                   reset_value, handle, live, events, written_data, spc,
                   mark>>

\* the caller asks sensor.data_available(): class PMS5003 has no such
\* attribute, the lookup raises AttributeError and no channel is consulted
Call_data_available ==
    /\ spc = "idle"
    /\ pc = "idle"
    /\ Len(requests) < MaxRequests
    /\ getattr("data_available") = "AttributeError"
    /\ requests' =
          Append(requests, [method |-> "data_available",
                            reads |-> ReadsStarted,
                            after |-> IF outcomes = <<>> THEN "none"
                                      ELSE outcomes[Len(outcomes)].result,
                            in_waiting |-> Len(buffer),
                            reply |-> getattr("data_available")])
    /\ UNCHANGED <<serial, rx_buf_size, direct, reading, enable_value,
                   reset_value, handle, live, events, written_data, spc,
                   mark>>

SessionNext ==
    \/ Tick
    \/ SetupPins
    \/ SetupRelease
    \/ SetupAcquire
    \/ ResetCall
    \/ ResetLow
    \/ ResetClear
    \/ ResetHigh
    \/ ReadBegin
    \/ SyncRead
    \/ ReadLength
    \/ ReadPayload

SessionSpec == SessionInit /\ [][SessionNext]_vars

(***************************************************************************)
(* The caller's mode commands on a constructed session whose device        *)
(* streams into the simulator's channel, as in test_active_mode_to_*.      *)
(***************************************************************************)
ModeInit ==
    /\ serial = "simulator"
    /\ rx_buf_size = SIM_RX_BUF_SIZE
    /\ NothingRead
    /\ NothingDirect
    /\ Constructed

ModeNext ==
    \/ Tick
    \/ CallModeCommand
    \/ Call_data_available
    \/ ReadBegin
    \/ SyncRead
    \/ ReadLength
    \/ ReadPayload

ModeSpec == ModeInit /\ [][ModeNext]_vars

(***************************************************************************)
(* Vocabulary of the properties.                                           *)
(***************************************************************************)
\* a read() call has ended and none is running
Returned == pc = "idle" /\ outcomes # <<>>

\* what the latest read() call returned or raised
Last == outcomes[Len(outcomes)]

\* 32 bytes that begin with the marker and carry the length field 0x001C
WellFormed(f) ==
    /\ Len(f) = 32
    /\ f[1] = 66 /\ f[2] = 77
    /\ f[3] = 0 /\ f[4] = 28

\* the last two bytes of f, big-endian, are the sum of the 30 before them
ChecksumOk(f) == f[31] * 256 + f[32] = Sum(SubSeq(f, 1, 30))

ValidFrame(f) == WellFormed(f) /\ ChecksumOk(f)

CorruptFrame(f) == WellFormed(f) /\ ~ChecksumOk(f)

\* the 14 big-endian fields of the frame's payload
FieldsOf(f) == [i \in 1..14 |-> f[2 * i + 3] * 256 + f[2 * i + 4]]

Measurement(f) == [result |-> "data", data |-> FieldsOf(f)]

Raised(e) == [result |-> e, data |-> <<>>]

\* bytes i..j of s, empty when s is too short
Piece(s, i, j) == IF Len(s) >= j THEN SubSeq(s, i, j) ELSE <<>>

\* the last n bytes of s
LastBytes(s, n) == Piece(s, Len(s) - n + 1, Len(s))

\* no byte of s is one of the two marker bytes
NoMarkerByte(s) == \A i \in 1..Len(s) : s[i] # 66 /\ s[i] # 77

(***************************************************************************)
(* C1.  No false decode: a measurement returned by read() was decoded from *)
(* the last 32 bytes the call took from the channel, these bytes lie       *)
(* contiguously in the stream the channel accepted, begin with 0x42 0x4D,  *)
(* carry the length field 0x001C and end with the additive checksum of the *)
(* 30 bytes before; anything else ends in an error.                        *)
(***************************************************************************)
C1_NoFalseDecode ==
    /\ serial = "arbitrary" =>
          LET end == Len(rxlog) - Len(buffer)
          IN  /\ end >= Len(consumed)
              /\ consumed = SubSeq(rxlog, end - Len(consumed) + 1, end)
    /\ \A k \in 1..Len(outcomes) :
          outcomes[k].result \in Errors => outcomes[k].data = <<>>
    /\ (Returned /\ Last.result = "data") =>
          /\ serial = "arbitrary"
          /\ ValidFrame(LastBytes(consumed, 32))
          /\ Last.data = FieldsOf(LastBytes(consumed, 32))

\* a measurement was returned after the call had skipped bytes before the frame
C1_Witness ==
    /\ Returned
    /\ Last.result = "data"
    /\ Len(consumed) > 32
    /\ Len(outcomes) = 2

(***************************************************************************)
(* C2.  The statement of the claim: the stream 0x42 0x42 0x4D followed by  *)
(* a valid length field, payload and checksum is recognised, i.e. a call   *)
(* whose channel holds 0x42 and then a valid frame, and which never had to *)
(* wait for a byte, returns that frame.                                    *)
(***************************************************************************)
C2_OverlapRecognised ==
    (/\ Returned
     /\ clock = 0
     /\ Len(seen) >= 33
     /\ seen[1] = 66
     /\ ValidFrame(Piece(seen, 2, 33)))
        => /\ Last = Measurement(Piece(seen, 2, 33))
           /\ consumed = Piece(seen, 1, 33)

(***************************************************************************)
(* C3.  When the marker has matched and the next two bytes, big-endian,    *)
(* are not 28, the next step of read() raises FrameLengthError: exactly    *)
(* these two bytes leave the channel in one more serial.read(), no payload *)
(* is read and the call does not go back to hunting for a marker.          *)
(***************************************************************************)
C3_WrongLengthRaisesAtOnce ==
    [][(/\ pc = "len"
        /\ Len(buffer) >= 2
        /\ buffer[1] * 256 + buffer[2] # 28)
          => /\ pc' = "idle"
             /\ outcomes' = Append(outcomes, Raised("FrameLengthError"))
             /\ buffer' = SubSeq(buffer, 3, Len(buffer))
             /\ consumed' = consumed \o SubSeq(buffer, 1, 2)
             /\ nreads' = nreads + 1
             /\ decodes' = decodes]_vars

\* FrameLengthError was raised although a complete valid frame follows
C3_Witness ==
    /\ Returned
    /\ Last = Raised("FrameLengthError")
    /\ LastBytes(consumed, 4) = <<66, 77, 0, 4>>
    /\ \E i \in 1..Len(buffer) : ValidFrame(Piece(buffer, i, i + 31))

(***************************************************************************)
(* C4.  Two whole valid frames and a truncated third (marker, length 28,   *)
(* fewer than 28 payload bytes) are buffered before the first read() and   *)
(* nothing arrives afterwards: the first three calls return the first      *)
(* frame, return the second frame and raise SerialTimeoutError.            *)
(***************************************************************************)
TwoFramesAndStub(s) ==
    /\ Len(s) >= 68 /\ Len(s) < 96
    /\ ValidFrame(Piece(s, 1, 32))
    /\ ValidFrame(Piece(s, 33, 64))
    /\ Piece(s, 65, 68) = <<66, 77, 0, 28>>

C4_TruncatedThird ==
    (/\ prefed
     /\ TwoFramesAndStub(rxlog)
     /\ Len(outcomes) >= 3)
        => /\ outcomes[1] = Measurement(Piece(rxlog, 1, 32))
           /\ outcomes[2] = Measurement(Piece(rxlog, 33, 64))
           /\ outcomes[3] = Raised("SerialTimeoutError")

C4_Witness ==
    /\ prefed
    /\ TwoFramesAndStub(rxlog)
    /\ Len(outcomes) = 3
    /\ Returned
    /\ buffer = <<>>

(***************************************************************************)
(* C5.  Stray bytes with no marker byte among them lie between two valid   *)
(* frames, all buffered before the first read(): the first call returns    *)
(* the first frame and the second call skips every stray byte and returns  *)
(* the second frame, for an odd and for an even number of stray bytes.     *)
(***************************************************************************)
StrayBetweenFrames(s) ==
    /\ Len(s) > 64
    /\ ValidFrame(Piece(s, 1, 32))
    /\ NoMarkerByte(Piece(s, 33, Len(s) - 32))
    /\ ValidFrame(LastBytes(s, 32))

C5_StrayBytesSkipped ==
    (/\ prefed
     /\ StrayBetweenFrames(rxlog)
     /\ Len(outcomes) >= 2)
        => /\ outcomes[1] = Measurement(Piece(rxlog, 1, 32))
           /\ outcomes[2] = Measurement(LastBytes(rxlog, 32))
           /\ Len(outcomes) = 2 /\ pc = "idle" =>
                 consumed = Piece(rxlog, 33, Len(rxlog))

\* an odd number of stray bytes was skipped
C5_Witness ==
    /\ prefed
    /\ StrayBetweenFrames(rxlog)
    /\ Len(rxlog) % 2 = 1
    /\ Len(outcomes) = 2
    /\ Returned
    /\ Last.result = "data"

(***************************************************************************)
(* C6.  On the channel that delivers NUL bytes for ever, a turn of the     *)
(* synchronisation loop raises ReadTimeoutError when the time since read() *)
(* was entered exceeds 5 seconds, and raises nothing and stays in the loop *)
(* while it is at or below 5 seconds; no call ends in anything else.       *)
(***************************************************************************)
C6_TimeoutOnEndlessNoise ==
    [][(serial = "fail" /\ pc = "sync")
          => /\ IF clock > 5
                  THEN /\ pc' = "idle"
                       /\ outcomes' =
                             Append(outcomes, Raised("ReadTimeoutError"))
                  ELSE pc' = "sync" /\ outcomes' = outcomes
             /\ \A k \in 1..Len(outcomes') :
                   outcomes'[k] = Raised("ReadTimeoutError")]_vars

\* the call was still reading at exactly 5 seconds and timed out after it
C6_Witness ==
    /\ serial = "fail"
    /\ Returned
    /\ Last = Raised("ReadTimeoutError")
    /\ clock = 6
    /\ nreads = MaxNoise

(***************************************************************************)
(* C7.  When the single-byte read of the synchronisation loop finds the    *)
(* channel empty and nothing arrives, that turn raises SerialTimeoutError: *)
(* it was the call's last serial.read() and the call is over within the 5  *)
(* second budget; a call that got no byte at all ends in                   *)
(* SerialTimeoutError after exactly one serial.read().                     *)
(***************************************************************************)
C7_EmptyReadRaisesAtOnce ==
    [][/\ (/\ serial = "arbitrary"
           /\ pc = "sync"
           /\ clock <= 5
           /\ buffer = <<>>
           /\ fed' = fed)
             => /\ pc' = "idle"
                /\ outcomes' = Append(outcomes, Raised("SerialTimeoutError"))
                /\ nreads' = nreads + 1
                /\ consumed' = consumed
                /\ clock' <= 5
       /\ (/\ serial = "arbitrary"
           /\ pc' = "idle"
           /\ outcomes' # outcomes
           /\ consumed' = <<>>)
             => /\ outcomes'[Len(outcomes')] = Raised("SerialTimeoutError")
                /\ nreads' = 1]_vars

\* read() on an empty channel raised SerialTimeoutError
C7_Witness ==
    /\ serial = "arbitrary"
    /\ Returned
    /\ Last = Raised("SerialTimeoutError")
    /\ rxlog = <<>>
    /\ nreads = 1

(***************************************************************************)
(* C8.  read() has no retry loop, which is the behaviour of a retry budget *)
(* of 0: when the channel holds a well-formed frame with a wrong checksum  *)
(* at the head, the call raises ChecksumMismatchError after taking exactly *)
(* the 32 bytes of that frame in 4 serial.read() calls and one decoding;   *)
(* a valid frame that follows stays in the channel.                        *)
(***************************************************************************)
C8_ChecksumErrorImmediate ==
    (Returned /\ CorruptFrame(Piece(seen, 1, 32)))
        => /\ Last = Raised("ChecksumMismatchError")
           /\ consumed = Piece(seen, 1, 32)
           /\ nreads = 4
           /\ decodes = 1

\* ChecksumMismatchError was raised with a valid frame left in the channel
C8_Witness ==
    /\ Returned
    /\ CorruptFrame(Piece(seen, 1, 32))
    /\ ValidFrame(Piece(seen, 33, 64))
    /\ Last = Raised("ChecksumMismatchError")
    /\ Piece(buffer, 1, 32) = Piece(seen, 33, 64)

(***************************************************************************)
(* C9.  The statement of the claim, for every retry budget N > 0: a call   *)
(* whose channel holds one checksum-corrupted frame and then one valid     *)
(* frame returns the valid frame's measurement, having decoded two frames  *)
(* (one retry used).                                                       *)
(***************************************************************************)
C9_RetryYieldsNextFrame ==
    \A N \in 1..MaxRetries :
        (/\ Returned
         /\ CorruptFrame(Piece(seen, 1, 32))
         /\ ValidFrame(Piece(seen, 33, 64)))
            => /\ Last = Measurement(Piece(seen, 33, 64))
               /\ decodes - 1 = 1
               /\ decodes - 1 <= N

(***************************************************************************)
(* C10.  Retries are bounded: for every retry budget N, a read() call      *)
(* decodes at most N + 1 frames, and a call whose channel holds N + 1      *)
(* checksum-corrupted frames in a row ends by raising                      *)
(* ChecksumMismatchError.                                                  *)
(***************************************************************************)
CorruptRun(s, n) ==
    \A j \in 0..(n - 1) : CorruptFrame(Piece(s, 32 * j + 1, 32 * j + 32))

C10_RetriesBounded ==
    \A N \in 0..MaxRetries :
        /\ decodes <= N + 1
        /\ (Returned /\ CorruptRun(seen, N + 1))
              => Last = Raised("ChecksumMismatchError")

\* two corrupted frames in a row were in the channel and one was decoded
C10_Witness ==
    /\ Returned
    /\ CorruptRun(seen, 2)
    /\ decodes = 1
    /\ Last = Raised("ChecksumMismatchError")

(***************************************************************************)
(* C11.  FrameLengthError and SerialTimeoutError are never retried: the    *)
(* step of read() that meets a wrong length field, or a serial.read() that *)
(* gets fewer bytes than it asked for while nothing arrives, ends the call *)
(* with that error.  It is the call's last serial.read(), the bytes it got *)
(* are gone from the channel, and no decoding attempt (the unit of the     *)
(* retry budget) is spent on it.                                           *)
(***************************************************************************)
C11_StructuralErrorsEndTheCall ==
    [][/\ (/\ pc = "len"
           /\ Len(buffer) >= 2
           /\ ~check_data_len(buffer[1] * 256 + buffer[2]))
             => /\ pc' = "idle"
                /\ outcomes' = Append(outcomes, Raised("FrameLengthError"))
                /\ nreads' = nreads + 1
                /\ decodes' = decodes
       /\ (/\ serial = "arbitrary"
           /\ pc \in {"sync", "len", "payload"}
           /\ ~(pc = "sync" /\ clock > 5)
           /\ Len(buffer) < Wanted
           /\ fed' = fed)
             => /\ pc' = "idle"
                /\ outcomes' = Append(outcomes, Raised("SerialTimeoutError"))
                /\ nreads' = nreads + 1
                /\ decodes' = decodes
                /\ consumed' = consumed \o buffer
                /\ buffer' = <<>>
       /\ (/\ outcomes' # outcomes
           /\ outcomes'[Len(outcomes')].result
                 \in {"FrameLengthError", "SerialTimeoutError"})
             => decodes' = 0]_vars

\* a payload came short: SerialTimeoutError after marker, length and a part
\* of the payload were taken
C11_Witness ==
    /\ Returned
    /\ Last = Raised("SerialTimeoutError")
    /\ nreads = 4
    /\ decodes = 0
    /\ Len(consumed) > 4
    /\ Len(consumed) < 32
    /\ buffer = <<>>

(***************************************************************************)
(* C12.  For every retry budget N > 0: after a first read() has returned a *)
(* measurement, a second read() whose channel holds exactly one            *)
(* checksum-corrupted frame and gets nothing more (silence) raises         *)
(* ChecksumMismatchError, having taken the whole frame and decoded once.   *)
(***************************************************************************)
C12_CorruptThenSilence ==
    \A N \in 1..MaxRetries :
        (/\ Returned
         /\ Len(outcomes) = 2
         /\ outcomes[1].result = "data"
         /\ Len(seen) = 32
         /\ CorruptFrame(seen))
            => /\ Last = Raised("ChecksumMismatchError")
               /\ consumed = seen
               /\ decodes = 1
               /\ decodes - 1 <= N

\* the stream was a valid frame and then a corrupted one, and nothing else
C12_Witness ==
    /\ Returned
    /\ Len(outcomes) = 2
    /\ Len(rxlog) = 64
    /\ outcomes[1] = Measurement(Piece(rxlog, 1, 32))
    /\ seen = Piece(rxlog, 33, 64)
    /\ CorruptFrame(seen)
    /\ Last = Raised("ChecksumMismatchError")
    /\ buffer = <<>>

(***************************************************************************)
(* C13.  For a 28-byte payload and a 2-byte length field, constructing     *)
(* PMS5003Data succeeds exactly when 0x42 + 0x4D + the two length bytes +  *)
(* the first 26 payload bytes equals the big-endian value of the last two  *)
(* payload bytes, and raises ChecksumMismatchError otherwise; the sum      *)
(* stays below 2^16, and a constructed object holds the 14 big-endian      *)
(* fields of the payload.                                                  *)
(***************************************************************************)
C13_ChecksumDecides ==
    (/\ obj # NoObject
     /\ Len(args.raw_data) = 28
     /\ args.frame_length_bytes # None)
        => LET raw == args.raw_data
               total == 66 + 77 + args.frame_length_bytes[1]
                           + args.frame_length_bytes[2]
                           + Sum(SubSeq(raw, 1, 26))
           IN  /\ total < 65536
               /\ obj.result \in {"ok", "ChecksumMismatchError"}
               /\ obj.result = "ok" <=> total = raw[27] * 256 + raw[28]
               /\ obj.result = "ok" =>
                     obj.data = [i \in 1..14 |->
                                    raw[2 * i - 1] * 256 + raw[2 * i]]

\* the largest sum there is was accepted: every byte of the length field
\* and of the first 26 payload bytes is 255
C13_Witness ==
    /\ obj.result = "ok"
    /\ args.frame_length_bytes = <<255, 255>>
    /\ \A i \in 1..26 : args.raw_data[i] = 255
    /\ obj.data[14] = 7283

(***************************************************************************)
(* C14.  Constructing PMS5003Data from bytes whose number is not 28 raises *)
(* FrameLengthError whatever the bytes are, so ChecksumMismatchError is    *)
(* only ever raised for 28 bytes; 28 bytes that end with the right         *)
(* checksum construct successfully.                                        *)
(***************************************************************************)
C14_LengthCheckedFirst ==
    obj # NoObject =>
        LET raw == args.raw_data
            field == IF args.frame_length_bytes = None
                       THEN <<0, 28>>
                       ELSE args.frame_length_bytes
        IN  /\ Len(raw) # 28 => obj = Raised("FrameLengthError")
            /\ obj.result = "ChecksumMismatchError" => Len(raw) = 28
            /\ (/\ Len(raw) = 28
                /\ raw[27] * 256 + raw[28] =
                      66 + 77 + field[1] + field[2] + Sum(SubSeq(raw, 1, 26)))
                  => obj.result = "ok"

\* 29 bytes were refused although the first 28 are a payload with the right
\* checksum
C14_Witness ==
    /\ obj = Raised("FrameLengthError")
    /\ Len(args.raw_data) = 29
    /\ args.frame_length_bytes = <<0, 28>>
    /\ ValidFrame(<<66, 77, 0, 28>> \o SubSeq(args.raw_data, 1, 28))

(***************************************************************************)
(* C15.  The statement of the claim: on a constructed measurement,         *)
(* pm_ug_per_m3 answers for each of the sizes 1.0, 2.5 and 10 under either *)
(* calibration with the big-endian field 0, 1, 2 of the payload (standard) *)
(* or 3, 4, 5 (atmospheric environment), and pm_per_1l_air answers for the *)
(* thresholds 0.3, 0.5, 1.0, 2.5, 5 and 10 with the fields 6 to 11.        *)
(***************************************************************************)
FieldOfPayload(raw, k) == raw[2 * k + 1] * 256 + raw[2 * k + 2]

C15_AccessorsReturnFields ==
    /\ (answer.fn = "pm_ug_per_m3"
           /\ answer.size \in {um(10), um(25), um(100)})
          => LET nth == CASE answer.size = um(10) -> 0
                          [] answer.size = um(25) -> 1
                          [] answer.size = um(100) -> 2
                 k == IF answer.atmospheric_environment THEN nth + 3 ELSE nth
             IN  /\ answer.result = "ok"
                 /\ answer.value = FieldOfPayload(args.raw_data, k)
    /\ (answer.fn = "pm_per_1l_air"
           /\ answer.size \in {um(3), um(5), um(10), um(25), um(50), um(100)})
          => LET k == CASE answer.size = um(3) -> 6
                        [] answer.size = um(5) -> 7
                        [] answer.size = um(10) -> 8
                        [] answer.size = um(25) -> 9
                        [] answer.size = um(50) -> 10
                        [] answer.size = um(100) -> 11
             IN  /\ answer.result = "ok"
                 /\ answer.value = FieldOfPayload(args.raw_data, k)

(***************************************************************************)
(* C16.  The statement of the claim: the bytes written to the channel are  *)
(* exactly, in the order of the calls, 42 4D E1 00 00 01 70 for each       *)
(* cmd_mode_passive(), 42 4D E1 00 01 01 71 for each cmd_mode_active(),    *)
(* 42 4D E2 00 00 01 71 for each read() entered after a cmd_mode_passive() *)
(* with no cmd_mode_active() since, and nothing for any other read().      *)
(***************************************************************************)
\* the write log the claim states for the mode commands from the i-th on
\* and the read() calls after the first r, the local mode being passive or not
RECURSIVE ClaimedWrites(_, _, _)
ClaimedWrites(i, r, passive) ==
    IF i <= Len(requests) /\ requests[i].reads = r
      THEN (IF requests[i].method = "cmd_mode_passive"
              THEN PASSIVE_REQ
              ELSE ACTIVE_REQ)
             \o ClaimedWrites(i + 1, r,
                              requests[i].method = "cmd_mode_passive")
      ELSE IF r < ReadsStarted
             THEN (IF passive THEN READ_REQ ELSE <<>>)
                    \o ClaimedWrites(i, r + 1, passive)
             ELSE <<>>

C16_WriteLog == written_data = ClaimedWrites(1, 0, FALSE)

(***************************************************************************)
(* C17.  The statement of the claim, for the channel of the read() that    *)
(* follows the switch to passive mode: when the acknowledgement of the     *)
(* set-mode command is the next frame in the channel and a data frame      *)
(* follows it, the call returns that data frame's measurement; when a data *)
(* frame lies ahead of the acknowledgement, the call returns that data     *)
(* frame's measurement.  Neither raises an error.                          *)
(***************************************************************************)
\* 8 bytes: marker, length field 0x0004, command, data, additive checksum
AckFrame(f) ==
    /\ Len(f) = 8
    /\ f[1] = 66 /\ f[2] = 77
    /\ f[3] = 0 /\ f[4] = 4
    /\ f[7] * 256 + f[8] = Sum(SubSeq(f, 1, 6))

C17_ReadAfterPassiveSwitch ==
    /\ (/\ Returned
        /\ AckFrame(Piece(seen, 1, 8))
        /\ ValidFrame(Piece(seen, 9, 40)))
          => Last = Measurement(Piece(seen, 9, 40))
    /\ (/\ Returned
        /\ ValidFrame(Piece(seen, 1, 32))
        /\ AckFrame(Piece(seen, 33, 40)))
          => Last = Measurement(Piece(seen, 1, 32))

(***************************************************************************)
(* C18.  An acknowledgement frame is never returned as a measurement: a    *)
(* read() whose channel has an acknowledgement frame at its head           *)
(* synchronises on it and raises FrameLengthError, having taken the marker *)
(* and the length field 0x0004 in three serial.read() calls and decoded    *)
(* nothing; whatever a read() returns as a measurement was decoded from a  *)
(* frame with the length field 0x001C.                                     *)
(***************************************************************************)
C18_AckNeverDecoded ==
    /\ (Returned /\ AckFrame(Piece(seen, 1, 8)))
          => /\ Last = Raised("FrameLengthError")
             /\ consumed = Piece(seen, 1, 4)
             /\ nreads = 3
             /\ decodes = 0
    /\ (Returned /\ Last.result = "data")
          => /\ decodes = 1
             /\ Piece(LastBytes(consumed, 32), 3, 4) = <<0, 28>>

\* FrameLengthError on an acknowledgement, whose command and checksum bytes
\* stay in the channel ahead of the data frame that followed
C18_Witness ==
    /\ Returned
    /\ Len(outcomes) = 1
    /\ Piece(seen, 1, 8) = PASSIVE_RESP
    /\ ValidFrame(Piece(seen, 9, 40))
    /\ Last = Raised("FrameLengthError")
    /\ buffer = Piece(seen, 5, Len(seen))

(***************************************************************************)
(* C19.  Every reset() drives the reset line low, then clears the          *)
(* channel's buffered input, then drives the line high, in that order and  *)
(* leaving the enable line as it was.  When reset() returns the reset line *)
(* is high, and on a channel whose reset_input_buffer() discards, the      *)
(* bytes in the channel then and until the next reset() all arrived after  *)
(* the reset began: none from before is left for a read() to synchronise   *)
(* on.                                                                     *)
(***************************************************************************)
\* the trace has low, reset_input_buffer, high only in that order, adjacent
LowClearHigh(trace) ==
    \A i \in 1..Len(trace) :
        /\ trace[i] = "reset=False" =>
              /\ i + 1 <= Len(trace) => trace[i + 1] = "reset_input_buffer"
              /\ i + 2 <= Len(trace) => trace[i + 2] = "reset=True"
        /\ trace[i] = "reset_input_buffer" =>
              i > 1 /\ trace[i - 1] = "reset=False"

\* the channel holds nothing but the latest bytes it accepted, all of them
\* accepted after the latest reset() began
OnlyNewBytes ==
    /\ Len(buffer) <= Len(rxlog) - mark
    /\ buffer = SubSeq(rxlog, Len(rxlog) - Len(buffer) + 1, Len(rxlog))

InReset == spc \in {"reset", "reset_low", "reset_cleared"}

C19_ResetTogglesAndClears ==
    [][/\ LowClearHigh(events')
       /\ InReset => enable_value' = enable_value
       /\ (InReset /\ spc' = "idle")
             => /\ reset_value' = TRUE
                /\ LastBytes(events', 3) = ResetTrace
                /\ Discards => OnlyNewBytes'
       /\ (spc' = "idle" /\ Discards) => OnlyNewBytes']_vars

\* the caller's reset() discarded a buffered frame and kept the frame that
\* arrived after the input was cleared
C19_Witness ==
    /\ Discards
    /\ spc = "idle"
    /\ Count(events, "reset=False") = 2
    /\ Count(events, "UART") = 1
    /\ reset_value = TRUE
    /\ outcomes = <<>>
    /\ pc = "idle"
    /\ mark >= 32
    /\ Len(rxlog) = mark + 32
    /\ buffer = GOODFRAME1

(***************************************************************************)
(* C20.  Across the setup() calls of one session at most one serial        *)
(* channel is live at any time and none is live that the session does not  *)
(* hold: every channel but the first is acquired right after the deinit()  *)
(* of the one held before, and every acquisition is followed at once by a  *)
(* whole reset(), with which setup() ends.                                 *)
(***************************************************************************)
C20_OneChannelAtATime ==
    /\ Cardinality(live) <= 1
    /\ live \subseteq {handle}
    /\ Count(events, "UART") - Count(events, "deinit") = Cardinality(live)
    /\ \A i \in 1..Len(events) :
          events[i] = "UART" =>
              /\ Count(SubSeq(events, 1, i - 1), "UART") > 0
                    => events[i - 1] = "deinit"
              /\ \A k \in 1..3 :
                    i + k <= Len(events) => events[i + k] = ResetTrace[k]
              /\ spc = "idle" => i + 3 <= Len(events)

\* a second setup() has released the first channel, acquired the second and
\* ended with its reset(), after the first channel had been read from
C20_Witness ==
    /\ spc = "idle"
    /\ Count(events, "UART") = 2
    /\ Count(events, "deinit") = 1
    /\ handle = 2
    /\ live = {2}
    /\ LastBytes(events, 4) = <<"UART">> \o ResetTrace
    /\ outcomes # <<>>

(***************************************************************************)
(* C21: a read() that returns a measurement has taken the bytes up to and   *)
(* including the last checksum byte of the frame it returns, all 32 of them *)
(* and no more when the stream starts on a frame boundary, and every later  *)
(* byte is still in the channel; and data_available(), asked once a read()  *)
(* has emptied the channel, answers False.                                  *)
(***************************************************************************)
\* the bytes the latest read() took, followed by what the channel still holds,
\* are the last bytes the channel accepted
LaterBytesUntouched ==
    LastBytes(rxlog, Len(consumed) + Len(buffer)) = consumed \o buffer

C21_ConsumesExactlyTheFrame ==
    /\ (Returned /\ Last.result = "data") =>
          /\ Len(consumed) >= FRAME_LEN
          /\ Last = Measurement(LastBytes(consumed, FRAME_LEN))
          /\ ValidFrame(Piece(seen, 1, FRAME_LEN)) =>
                consumed = Piece(seen, 1, FRAME_LEN)
          /\ LaterBytesUntouched
    /\ \A i \in 1..Len(requests) :
          (/\ requests[i].method = "data_available"
           /\ requests[i].after = "data"
           /\ requests[i].in_waiting = 0) => requests[i].reply = "False"

(***************************************************************************)
(* C22: every read() call ends, each channel read returning and the clock   *)
(* advancing: a call that has begun reaches its end, at its end exactly one *)
(* outcome is recorded, a measurement or one of the four errors, and none   *)
(* is recorded while the call goes on; this for every byte stream, the      *)
(* endless zero stream included.                                            *)
(***************************************************************************)
C22_EveryReadEnds ==
    /\ (pc # "idle") ~> (pc = "idle")
    /\ [][IF pc # "idle" /\ pc' = "idle"
            THEN /\ outcomes' = Append(outcomes, Last')
                 /\ Last'.result \in {"data"} \cup Errors
            ELSE outcomes' = outcomes]_vars

\* a call on the endless zero stream has ended after more turns of the loop
\* than can go by without the clock advancing
C22_Witness ==
    /\ Returned
    /\ serial = "fail"
    /\ Last = Raised("ReadTimeoutError")
    /\ nreads = MaxNoise + READ_TIMEOUT + 1

(***************************************************************************)
(* C23: PMS5003Data constructed from a 28-byte payload without              *)
(* frame_length_bytes has the outcome the construction with                 *)
(* frame_length_bytes = 0x00 0x1C, the big-endian payload length, has: the  *)
(* same decoded fields or the same ChecksumMismatchError, decided by the    *)
(* sum over marker, 0x00 0x1C and the first 26 payload bytes.               *)
(***************************************************************************)
\* struct.pack('>H', n)
BigEndian(n) == <<n \div 256, n % 256>>

C23_DefaultLengthField ==
    (/\ obj # NoObject
     /\ args.frame_length_bytes = None
     /\ Len(args.raw_data) = DATA_LEN)
        => LET raw == args.raw_data
               total == 66 + 77 + 0 + 28 + Sum(SubSeq(raw, 1, 26))
           IN  /\ BigEndian(Len(raw)) = <<0, 28>>
               /\ obj = PMS5003Data(raw, BigEndian(Len(raw)))
               /\ obj.result \in {"ok", "ChecksumMismatchError"}
               /\ obj.result = "ok" <=> total = raw[27] * 256 + raw[28]
               /\ obj.result = "ok" =>
                     obj.data = [i \in 1..14 |->
                                    raw[2 * i - 1] * 256 + raw[2 * i]]

\* the payload of GOODFRAME1 was accepted without frame_length_bytes, as in
\* test_data_checksum_pass_alt
C23_Witness ==
    /\ obj.result = "ok"
    /\ args.frame_length_bytes = None
    /\ args.raw_data = Payload(GOODFRAME1)

\* a payload with one byte inverted was refused without frame_length_bytes,
\* as in test_data_checksum_fail_alt
C23_WitnessMismatch ==
    /\ obj = Raised("ChecksumMismatchError")
    /\ args.frame_length_bytes = None
    /\ args.raw_data # Payload(GOODFRAME1)
    /\ [args.raw_data EXCEPT ![CORRUPTION_POS - 3] = 255 - @] = Payload(GOODFRAME1)

(***************************************************************************)
(* C24: an accessor called with a size outside the set it supports raises   *)
(* ValueError, which is none of the four protocol errors, and returns no    *)
(* field value.                                                             *)
(***************************************************************************)
\* the sizes the accessor documents: PM1.0, PM2.5 and PM10 for the mass
\* concentrations, the six thresholds for the particle counts
SupportedSizes(fn) ==
    IF fn = "pm_ug_per_m3"
      THEN {um(10), um(25), um(100)}
      ELSE {um(3), um(5), um(10), um(25), um(50), um(100)}

C24_UnsupportedSizeIsValueError ==
    (/\ answer.fn # "none"
     /\ answer.size \notin SupportedSizes(answer.fn))
        => /\ answer.result = "ValueError"
           /\ answer.result \notin Errors

(***************************************************************************)
(* C25: the overall timeout belongs to the search for the start marker.     *)
(* ReadTimeoutError is raised only at the top of the loop, with the elapsed *)
(* time over the limit and without a read; every single-byte read follows a *)
(* look at the elapsed time that found it within the limit; and once the    *)
(* marker has matched the call ends in a measurement, FrameLengthError,     *)
(* SerialTimeoutError or ChecksumMismatchError, however long the reads of   *)
(* length and payload wait.                                                 *)
(***************************************************************************)
C25_TimeoutOnlyWhileSyncing ==
    [][/\ (Len(outcomes') > Len(outcomes)
            /\ Last'.result = "ReadTimeoutError")
          => /\ pc = "sync"
             /\ clock > READ_TIMEOUT
             /\ nreads' = nreads
       /\ (pc = "sync" /\ nreads' = nreads + 1) => clock <= READ_TIMEOUT
       /\ (pc = "sync" /\ clock > READ_TIMEOUT)
          => pc' = "idle" /\ Last' = Raised("ReadTimeoutError")
       /\ (pc \in {"len", "payload"} /\ pc' = "idle")
          => Last'.result \in {"data", "FrameLengthError",
                               "SerialTimeoutError", "ChecksumMismatchError"}
      ]_vars

\* a measurement was returned although length and payload arrived so late
\* that the call took longer than the limit
C25_Witness ==
    /\ Returned
    /\ Last = Measurement(GOODFRAME1)
    /\ clock > READ_TIMEOUT
    /\ nreads = 4

(***************************************************************************)
(* C26: the match state belongs to one read() call.  Every call starts      *)
(* expecting marker byte0, whatever the call before consumed and however it *)
(* ended: a first byte 0x4D is no match, and when the byte before the ones  *)
(* this call consumed was a 0x42 that together with them makes a valid      *)
(* frame, that frame is not returned; a measurement the call returns is a   *)
(* frame whose marker lies wholly behind it.                                *)
(***************************************************************************)
\* the number of bytes the channel delivered before the latest call began
BeforeCall == Len(rxlog) - Len(buffer) - Len(consumed)

\* the call before took byte0 of a valid frame, the latest call took the rest
HeadlessFrame ==
    /\ BeforeCall >= 1
    /\ rxlog[BeforeCall] = PMS5003_SOF[1]
    /\ Len(consumed) >= FRAME_LEN - 1
    /\ ValidFrame(<<PMS5003_SOF[1]>> \o Piece(consumed, 1, FRAME_LEN - 1))

C26_MatchStateIsPerCall ==
    [][/\ (pc = "idle" /\ pc' # "idle") => sof_index' = 0
       /\ (pc = "sync" /\ nreads = 0 /\ consumed' = <<PMS5003_SOF[2]>>)
          => pc' = "sync" /\ sof_index' = 0
       /\ (Returned' /\ HeadlessFrame' /\ Last'.result = "data")
          => /\ Len(consumed') >= 2 * FRAME_LEN - 1
             /\ Last' = Measurement(LastBytes(consumed', FRAME_LEN))
      ]_vars

\* a call timed out having taken byte0 of GOODFRAME1; the next call went
\* through the rest of that frame and returned GOODFRAME2, which came after
C26_Witness ==
    /\ Returned
    /\ Len(outcomes) = 2
    /\ outcomes[1] = Raised("ReadTimeoutError")
    /\ HeadlessFrame
    /\ Piece(consumed, 1, FRAME_LEN - 1) = Tail(GOODFRAME1)
    /\ Last = Measurement(GOODFRAME2)
    /\ Len(consumed) = 2 * FRAME_LEN - 1

=============================================================================
